---- MODULE Spec2Model ----
(***************************************************************************)
(* A model of the NPI registry research scripts:                           *)
(*   npi_api_client.py          NPIRegistryClient                          *)
(*   ny_healthcare_research.py  the category and named-entity traversals   *)
(*   visualize.py               the chart writer                           *)
(*                                                                         *)
(* Python values are modelled as follows.  A dict is a function whose      *)
(* domain is the set of keys it holds (a missing key is a key outside the  *)
(* domain), a list is a sequence, and a call that may raise yields either  *)
(* [list |-> v] / [dict |-> v] (the value returned, tagged by its Python   *)
(* type) or [exc |-> name] (the exception that escapes).                   *)
(***************************************************************************)
EXTENDS Integers, Sequences, FiniteSets, TLC

VARIABLES
    \* one call of a NPIRegistryClient method
    op,          \* the method called last ("none" before any call)
    kwargs,      \* the keyword arguments that reached search_providers
    sent,        \* the parameter sets of the outbound GETs of that call
    outcome,     \* what the transport did with the GET
    ret,         \* what the method gave its caller
    \* one raw entry put through the body of a traversal's inner loop
    entry,       \* the raw provider entry
    loop,        \* the traversal that handled it, with its category and keyword
    out,         \* the records the loop appended, or the exception
    \* runs of ny_healthcare_research.py
    pc,          \* position of the script
    idx,         \* number of (category, keyword) pairs or names done
    all_results, category_results, found_companies,
    requests,    \* the parameter sets of the GETs of this run, in order
    budget,      \* how many more queries may come back with entries
    sawError,    \* some query of this run ended in a transport error
    last,        \* how the last query ended: "none", "error" or "answer"
    delivered,   \* per category query, the entries the registry handed over
    timestamp,   \* line 71's timestamp of this run (-1 before)
    written,     \* the files this run wrote: name -> content
    clock,       \* wall clock, in ticks
    run,         \* number of the current run
    disk,        \* the working directory: file name -> run that wrote it
    overwritten  \* file names a later run wrote over

clientVars == <<op, kwargs, sent, outcome, ret>>
entryVars == <<entry, loop, out>>
runVars == <<pc, idx, all_results, category_results, found_companies, requests,
             budget, sawError, last, delivered, timestamp, written, clock, run, disk,
             overwritten>>
vars == <<clientVars, entryVars, runVars>>

(***************************************************************************)
(* Bounds of the model.                                                    *)
(***************************************************************************)
MaxCount == 2
MaxResults == 2
MaxAddresses == 2
MaxTaxonomies == 1
MaxHits == 2
MaxRunHits == 1
MaxRuns == 2
MaxClock == 3
TicksPerSecond == 2

(***************************************************************************)
(* Python dicts and call results.                                          *)
(***************************************************************************)
EmptyDict == <<>>

\* dict.get(k, default)
Get(d, k, default) == IF k \in DOMAIN d THEN d[k] ELSE default

ReturnList(v) == [list |-> v]
ReturnDict(v) == [dict |-> v]
Raise(e) == [exc |-> e]
IsRaise(r) == "exc" \in DOMAIN r
IsList(r) == "list" \in DOMAIN r
IsDict(r) == "dict" \in DOMAIN r

Min(a, b) == IF a < b THEN a ELSE b

(***************************************************************************)
(* NPIRegistryClient.search_providers                                      *)
(***************************************************************************)
\* requests.exceptions.RequestException and the subclasses the transport raises
RequestExceptions == {"ConnectionError", "Timeout", "HTTPError"}

\* The mapping of search_providers: params = {'version': '2.1'}; params.update(kwargs)
BuildParamsFixedWins(kw) == ("version" :> "2.1") @@ kw
BuildParams(kw) == kw @@ ("version" :> "2.1")

\* session.get(...): a network failure raises, anything else is a response
SessionGet(oc) ==
    IF oc.kind = "network" THEN Raise(oc.exc) ELSE ReturnDict(oc)

\* response.raise_for_status(): HTTPError for a 4xx or 5xx status
RaiseForStatusOmitted(response) == ReturnDict(response)
RaiseForStatus(response) ==
    IF response.status >= 400 /\ response.status < 600
    THEN Raise("HTTPError") ELSE ReturnDict(response)

\* except requests.exceptions.RequestException
CaughtConnectionOnly(e) == e = "ConnectionError"
Caught(e) == e \in RequestExceptions

\* The try block and its handler: the value of one call, given the outcome of
\* its one GET.
TryRequest(oc) ==
    LET got == SessionGet(oc)
        checked == IF IsRaise(got) THEN got ELSE RaiseForStatus(got.dict)
    IN IF IsRaise(checked)
       THEN IF Caught(checked.exc)
            THEN ReturnDict([error |-> oc.msg])
            ELSE checked
       ELSE ReturnDict(checked.dict.body)

\* search_providers(**kwargs): the parameters sent and the value returned
search_providers(kw, oc) ==
    LET params == BuildParams(kw)
    IN [params |-> params, gets |-> <<params>>, res |-> TryRequest(oc)]

(***************************************************************************)
(* The derived operations of the client.                                   *)
(***************************************************************************)
APILimit == 1200

\* 'result_count' in results and results['result_count'] > 0
HasCountOnly(results) == "result_count" \in DOMAIN results
HasResults(results) ==
    "result_count" \in DOMAIN results /\ results["result_count"] > 0

\* the tail shared by the two list-returning operations
ResultsOrEmpty(res) ==
    IF IsRaise(res) THEN res
    ELSE IF HasResults(res.dict)
         THEN ReturnList(Get(res.dict, "results", <<>>))
         ELSE ReturnList(<<>>)

search_ny_healthcare_organizations(limit, oc) ==
    LET search_params == [city |-> "New York", enumeration_type |-> "NPI-2",
                          limit |-> Min(limit, APILimit)]
        call == search_providers(search_params, oc)
    IN [kw |-> search_params, gets |-> call.gets,
        res |-> ResultsOrEmpty(call.res)]

search_by_specialty(specialty, state, limit, oc) ==
    LET search_params == [taxonomy_description |-> specialty, state |-> state,
                          limit |-> Min(limit, APILimit)]
        call == search_providers(search_params, oc)
    IN [kw |-> search_params, gets |-> call.gets,
        res |-> ResultsOrEmpty(call.res)]

NotFound == [error |-> "Provider not found"]

\* results['results'][0]: KeyError without the key, IndexError on an empty list
FirstResult(results) ==
    IF "results" \notin DOMAIN results THEN Raise("KeyError")
    ELSE IF Len(results["results"]) = 0 THEN Raise("IndexError")
    ELSE ReturnDict(results["results"][1])

get_provider_details(npi_number, oc) ==
    LET search_params == [number |-> npi_number]
        call == search_providers(search_params, oc)
    IN [kw |-> search_params, gets |-> call.gets,
        res |-> IF IsRaise(call.res) THEN call.res
                ELSE IF HasResults(call.res.dict)
                     THEN FirstResult(call.res.dict)
                     ELSE ReturnDict(NotFound)]

(***************************************************************************)
(* What the registry and the transport can answer.                         *)
(***************************************************************************)
\* entries of a body, opaque to the client
ClientEntries == {[number |-> "1234567893"], [number |-> "1987654321"]}

Lists(S, n) == UNION {[1..k -> S] : k \in 0..n}

\* JSON objects: the count and the results sequence each present or not,
\* and not tied to each other (the client does not validate the body)
Bodies ==
    {[result_count |-> c, results |-> s] :
        c \in 0..MaxCount, s \in Lists(ClientEntries, MaxResults)}
    \cup {[result_count |-> c] : c \in 0..MaxCount}
    \cup {[results |-> s] : s \in Lists(ClientEntries, MaxResults)}
    \cup {[Errors |-> "Field must contain at least two characters"]}

Failures ==
    {[kind |-> "network", exc |-> "ConnectionError", msg |-> "Connection refused"],
     [kind |-> "network", exc |-> "Timeout", msg |-> "Read timed out"],
     [kind |-> "response", status |-> 404, body |-> EmptyDict,
      msg |-> "404 Client Error"],
     [kind |-> "response", status |-> 500, body |-> EmptyDict,
      msg |-> "500 Server Error"]}

Success(b) == [kind |-> "response", status |-> 200, body |-> b, msg |-> ""]

Outcomes == Failures \cup {Success(b) : b \in Bodies}

IsSuccess(oc) == oc.kind = "response" /\ oc.status = 200

\* keyword arguments a caller may pass to search_providers: each key given
\* or not
Opt(k, S) == {EmptyDict} \cup {k :> v : v \in S}
KwargsSet ==
    {a @@ b @@ c @@ d :
        a \in Opt("version", {"2.1", "1.0"}),
        b \in Opt("number", {"1234567893"}),
        c \in Opt("organization_name", {"Hospital"}),
        d \in Opt("limit", {1})}

(***************************************************************************)
(* The jurisdiction filter and the normalization of one raw entry.         *)
(***************************************************************************)
\* dict.get(k) of a missing key
None == "None"

\* any(addr.get('state') == 'NY' for addr in addresses)
is_ny_primary(addresses) ==
    addresses # <<>> /\ Get(addresses[1], "state", None) = "NY"
is_ny_org(addresses) ==
    \E i \in 1..Len(addresses) : Get(addresses[i], "state", None) = "NY"

\* addresses[0].get(k, '') if addresses else ''
FirstAddress(addresses, k) ==
    IF addresses # <<>> THEN Get(addresses[1], k, "") ELSE ""

\* result.get('taxonomies', [{}])[0].get('desc', '') if result.get('taxonomies') else ''
FirstTaxonomy(result) ==
    IF "taxonomies" \in DOMAIN result /\ result["taxonomies"] # <<>>
    THEN Get(Get(result, "taxonomies", <<EmptyDict>>)[1], "desc", "")
    ELSE ""

\* the dict literal of the category traversal, in the order of its keys
OrgDataKeys ==
    <<"category", "search_term", "npi_number", "organization_name", "city",
      "state", "zip_code", "phone", "taxonomy", "enumeration_date", "status">>

org_data_fields(result, addresses, category, term) ==
    [category |-> category,
     search_term |-> term,
     npi_number |-> Get(result, "number", ""),
     organization_name |-> Get(Get(result, "basic", EmptyDict), "organization_name", ""),
     city |-> FirstAddress(addresses, "city"),
     state |-> FirstAddress(addresses, "state"),
     zip_code |-> FirstAddress(addresses, "postal_code"),
     phone |-> FirstAddress(addresses, "telephone_number"),
     taxonomy |-> FirstTaxonomy(result),
     enumeration_date |-> Get(Get(result, "basic", EmptyDict), "enumeration_date", ""),
     status |-> Get(Get(result, "basic", EmptyDict), "status", "")]

\* the same literal with result['basic'] subscripted instead of .get
org_data_subscript(result, addresses, category, term) ==
    IF "basic" \notin DOMAIN result THEN Raise("KeyError")
    ELSE ReturnDict(org_data_fields(result, addresses, category, term))
org_data(result, addresses, category, term) ==
    ReturnDict(org_data_fields(result, addresses, category, term))

\* the dict literal of the named-entity traversal
company_data(result, addresses) ==
    ReturnDict(
        [company_name |-> Get(Get(result, "basic", EmptyDict), "organization_name", ""),
         npi_number |-> Get(result, "number", ""),
         city |-> FirstAddress(addresses, "city"),
         state |-> FirstAddress(addresses, "state"),
         zip_code |-> FirstAddress(addresses, "postal_code"),
         phone |-> FirstAddress(addresses, "telephone_number"),
         taxonomy |-> FirstTaxonomy(result)])

\* list.append(x)
AppendUnlessKnown(lst, rec) ==
    IF \E i \in 1..Len(lst) : lst[i].npi_number = rec.npi_number
    THEN lst ELSE Append(lst, rec)
ListAppend(lst, rec) == Append(lst, rec)

\* for result in results.get('results', []): ... of the category traversal.
\* acc holds the two lists the loop appends to.
RECURSIVE research_loop(_, _, _, _)
research_loop(results, acc, category, term) ==
    IF results = <<>> THEN ReturnDict(acc)
    ELSE LET result == Head(results)
             addresses == Get(result, "addresses", <<>>)
         IN IF is_ny_org(addresses)
            THEN LET made == org_data(result, addresses, category, term)
                 IN IF IsRaise(made) THEN made
                    ELSE research_loop(Tail(results),
                             [cat |-> ListAppend(acc.cat, made.dict),
                              all |-> ListAppend(acc.all, made.dict)],
                             category, term)
            ELSE research_loop(Tail(results), acc, category, term)

\* if 'result_count' in results and results['result_count'] > 0: for ...
research_query(results, acc, category, term) ==
    IF HasResults(results)
    THEN research_loop(Get(results, "results", <<>>), acc, category, term)
    ELSE ReturnDict(acc)

\* the same loop of the named-entity traversal
RECURSIVE company_loop(_, _)
company_loop(results, found) ==
    IF results = <<>> THEN ReturnList(found)
    ELSE LET result == Head(results)
             addresses == Get(result, "addresses", <<>>)
         IN IF is_ny_org(addresses)
            THEN LET made == company_data(result, addresses)
                 IN IF IsRaise(made) THEN made
                    ELSE company_loop(Tail(results), ListAppend(found, made.dict))
            ELSE company_loop(Tail(results), found)

company_query(results, found) ==
    IF HasResults(results)
    THEN company_loop(Get(results, "results", <<>>), found)
    ELSE ReturnList(found)

(***************************************************************************)
(* Calls of the client's methods, one action per method.  Each action is   *)
(* the whole call: the arguments are the caller's, the outcome is the      *)
(* transport's.                                                            *)
(***************************************************************************)
ClientIdle ==
    /\ op = "none"
    /\ kwargs = EmptyDict
    /\ sent = <<>>
    /\ outcome = [kind |-> "none"]
    /\ ret = ReturnDict(EmptyDict)

Limits == {10, 100, 2000}

CallSearchProviders ==
    \E kw \in KwargsSet, oc \in Outcomes :
        LET call == search_providers(kw, oc)
        IN /\ op' = "search_providers"
           /\ kwargs' = kw
           /\ sent' = call.gets
           /\ outcome' = oc
           /\ ret' = call.res
           /\ UNCHANGED <<entryVars, runVars>>

CallSearchNyHealthcareOrganizations ==
    \E limit \in Limits, oc \in Outcomes :
        LET call == search_ny_healthcare_organizations(limit, oc)
        IN /\ op' = "search_ny_healthcare_organizations"
           /\ kwargs' = call.kw
           /\ sent' = call.gets
           /\ outcome' = oc
           /\ ret' = call.res
           /\ UNCHANGED <<entryVars, runVars>>

CallSearchBySpecialty ==
    \E specialty \in {"Hospital"}, state \in {"NY"}, limit \in Limits,
       oc \in Outcomes :
        LET call == search_by_specialty(specialty, state, limit, oc)
        IN /\ op' = "search_by_specialty"
           /\ kwargs' = call.kw
           /\ sent' = call.gets
           /\ outcome' = oc
           /\ ret' = call.res
           /\ UNCHANGED <<entryVars, runVars>>

CallGetProviderDetails ==
    \E npi_number \in {"1234567893"}, oc \in Outcomes :
        LET call == get_provider_details(npi_number, oc)
        IN /\ op' = "get_provider_details"
           /\ kwargs' = call.kw
           /\ sent' = call.gets
           /\ outcome' = oc
           /\ ret' = call.res
           /\ UNCHANGED <<entryVars, runVars>>

(***************************************************************************)
(* The taxonomy and the names of the two traversals.                       *)
(***************************************************************************)
research_categories ==
    <<[category |-> "Hospitals",
       terms |-> <<"Hospital", "Medical Center", "Health System">>],
      [category |-> "Clinics",
       terms |-> <<"Clinic", "Medical Group", "Health Center">>],
      [category |-> "Specialized Care",
       terms |-> <<"Psychiatric", "Rehabilitation", "Cancer", "Cardiology">>],
      [category |-> "Nursing Homes",
       terms |-> <<"Nursing Home", "Skilled Nursing", "Long Term Care">>],
      [category |-> "Mental Health",
       terms |-> <<"Mental Health", "Behavioral Health", "Psychiatric">>]>>

major_companies ==
    <<"Mount Sinai", "New York Presbyterian", "NYU Langone", "Montefiore",
      "Northwell Health", "Memorial Sloan Kettering", "Columbia University",
      "Weill Cornell", "Lenox Hill", "Bellevue Hospital">>

\* the (category, keyword) pairs in the order the nested for loops visit them;
\* first marks the keyword at which category_results starts afresh
RECURSIVE PairsFrom(_)
PairsFrom(c) ==
    IF c > Len(research_categories) THEN <<>>
    ELSE [i \in 1..Len(research_categories[c].terms) |->
             [category |-> research_categories[c].category,
              term |-> research_categories[c].terms[i],
              first |-> (i = 1)]]
         \o PairsFrom(c + 1)
Pairs == PairsFrom(1)

(***************************************************************************)
(* Raw provider entries.                                                   *)
(***************************************************************************)
\* every entry with any of its nested keys absent; only addresses[0] is read
\* beyond its state, so the later addresses carry at most a state
PrimaryAddresses ==
    {a @@ b @@ c @@ d :
        a \in Opt("state", {"NY", "CA"}),
        b \in Opt("city", {"Albany"}),
        c \in Opt("postal_code", {"12207"}),
        d \in Opt("telephone_number", {"518-555-0100"})}
OtherAddresses == Opt("state", {"NY", "CA"})
AddressLists ==
    {<<>>} \cup
    {<<p>> \o rest : p \in PrimaryAddresses,
                     rest \in Lists(OtherAddresses, MaxAddresses - 1)}
Basics ==
    {a @@ b @@ c :
        a \in Opt("organization_name", {"City Hospital"}),
        b \in Opt("enumeration_date", {"2006-05-23"}),
        c \in Opt("status", {"A"})}
TaxonomyLists ==
    Lists(Opt("desc", {"General Acute Care Hospital"}), MaxTaxonomies)
Entries ==
    {n @@ b @@ a @@ t :
        n \in Opt("number", {"1234567893"}),
        b \in Opt("basic", Basics),
        a \in Opt("addresses", AddressLists),
        t \in Opt("taxonomies", TaxonomyLists)}

\* the entries the registry of a run holds
eNY ==
    [number |-> "1234567893",
     basic |-> [organization_name |-> "City Hospital",
                enumeration_date |-> "2006-05-23", status |-> "A"],
     addresses |-> <<[state |-> "NY", city |-> "New York",
                      postal_code |-> "10029",
                      telephone_number |-> "212-555-0100"]>>,
     taxonomies |-> <<[desc |-> "General Acute Care Hospital"]>>]
eCANY ==
    [number |-> "1987654321",
     basic |-> [organization_name |-> "Coast Psychiatric Group"],
     addresses |-> <<[state |-> "CA", city |-> "Los Angeles"],
                     [state |-> "NY"]>>]
eCA ==
    [number |-> "1555555555",
     addresses |-> <<[state |-> "CA", city |-> "San Diego"]>>]
eBare == [number |-> "1444444444"]

\* bodies of a run: with entries, and without any
HitBodies ==
    {[result_count |-> 3, results |-> <<eCANY, eCA, eNY>>],
     [result_count |-> 2, results |-> <<eBare, eCA>>]}
QuietBodies ==
    {[result_count |-> 0, results |-> <<>>],
     [result_count |-> 1, results |-> <<>>],
     [result_count |-> 1],
     [Errors |-> "Field must contain at least two characters"]}
RunOutcomes == Failures \cup {Success(b) : b \in QuietBodies \cup HitBodies}

\* the entries of a response
Handed(oc) == IF IsSuccess(oc) THEN Get(oc.body, "results", <<>>) ELSE <<>>

(***************************************************************************)
(* One raw entry through the body of each traversal's query: the response  *)
(* that carries it has a count of one.                                     *)
(***************************************************************************)
EntryIdle == loop = [name |-> "none"] /\ out = ReturnList(<<>>)

Carrying(e) == [result_count |-> 1, results |-> <<e>>]

\* Hospitals / Hospital and Specialized Care / Psychiatric
EntryPairs == {1, 7}

ResearchEntry ==
    /\ loop.name = "none"
    /\ \E i \in EntryPairs :
        LET got == research_query(Carrying(entry), [cat |-> <<>>, all |-> <<>>],
                                  Pairs[i].category, Pairs[i].term)
        IN /\ loop' = [name |-> "research", category |-> Pairs[i].category,
                       term |-> Pairs[i].term]
           /\ out' = IF IsRaise(got) THEN got ELSE ReturnList(got.dict.all)
    /\ UNCHANGED <<entry, clientVars, runVars>>

CompanyEntry ==
    /\ loop.name = "none"
    /\ loop' = [name |-> "company"]
    /\ out' = company_query(Carrying(entry), <<>>)
    /\ UNCHANGED <<entry, clientVars, runVars>>

(***************************************************************************)
(* The output files.                                                       *)
(***************************************************************************)
\* datetime.now().strftime("%Y%m%d_%H%M%S"): the clock cut to whole seconds
Strftime(t) == t \div TicksPerSecond

FileName(stem, ts, ext) == [stem |-> stem, ts |-> ts, ext |-> ext]

\* all_results[0].keys()
Keys(d) == SelectSeq(OrgDataKeys, LAMBDA k : k \in DOMAIN d)

\* csv.DictWriter(f, fieldnames): writeheader(), writerows(all_results)
DictWriter(fieldnames, rows) ==
    LET names == {fieldnames[i] : i \in 1..Len(fieldnames)}
    IN IF \E i \in 1..Len(rows) : ~(DOMAIN rows[i] \subseteq names)
       THEN Raise("ValueError")
       ELSE ReturnDict(
                [header |-> fieldnames,
                 rows |-> [i \in 1..Len(rows) |->
                              [j \in 1..Len(fieldnames) |->
                                  Get(rows[i], fieldnames[j], "")]]])

\* if all_results: ... the CSV file, when one is written
CsvAlways(results) ==
    DictWriter(OrgDataKeys, results)
CsvOutput(results) ==
    IF results # <<>> THEN DictWriter(Keys(results[1]), results)
    ELSE Raise("skipped")

\* Counter([r.get('category', 'Unknown') for r in all_results])
CategoryCounts(results) ==
    [c \in {Get(results[i], "category", "Unknown") : i \in 1..Len(results)} |->
        Cardinality({i \in 1..Len(results) :
                        Get(results[i], "category", "Unknown") = c})]

NoFiles == [json |-> <<>>, csv |-> <<>>, png |-> <<>>]

\* open(name, 'w') in the working directory
Stored(d, names, r) == [n \in DOMAIN d \cup names |-> IF n \in names THEN r ELSE d[n]]

(***************************************************************************)
(* A run of ny_healthcare_research.py.                                     *)
(***************************************************************************)
FreshRun(b) ==
    /\ pc = "research"
    /\ idx = 0
    /\ all_results = <<>>
    /\ category_results = <<>>
    /\ found_companies = <<>>
    /\ requests = <<>>
    /\ budget = b
    /\ sawError = FALSE
    /\ last = "none"
    /\ delivered = <<>>
    /\ timestamp = -1
    /\ written = NoFiles

\* one turn of the inner for loop of research_ny_healthcare_companies
ResearchQuery ==
    /\ pc = "research"
    /\ \E oc \in RunOutcomes :
        /\ Handed(oc) # <<>> => budget > 0
        /\ LET pair == Pairs[idx + 1]
               call == search_providers(
                           [organization_name |-> pair.term,
                            enumeration_type |-> "NPI-2", limit |-> 50], oc)
               acc == [cat |-> IF pair.first THEN <<>> ELSE category_results,
                       all |-> all_results]
               got == IF IsRaise(call.res) THEN call.res
                      ELSE research_query(call.res.dict, acc,
                                          pair.category, pair.term)
           IN /\ requests' = requests \o call.gets
              /\ budget' = IF Handed(oc) # <<>> THEN budget - 1 ELSE budget
              /\ sawError' = (sawError \/ ~IsSuccess(oc))
              /\ last' = IF IsSuccess(oc) THEN "answer" ELSE "error"
              /\ delivered' = Append(delivered, Handed(oc))
              /\ IF IsRaise(got)
                 THEN /\ pc' = "raised"
                      /\ UNCHANGED <<idx, all_results, category_results>>
                 ELSE /\ all_results' = got.dict.all
                      /\ category_results' = got.dict.cat
                      /\ idx' = idx + 1
                      /\ pc' = IF idx + 1 = Len(Pairs) THEN "save" ELSE "research"
    /\ UNCHANGED <<found_companies, timestamp, written, clock, run, disk,
                   overwritten, clientVars, entryVars>>

\* lines 70-110 of research_ny_healthcare_companies: the two files, the summary
SaveResults ==
    /\ pc = "save"
    /\ LET ts == Strftime(clock)
           json_filename == FileName("ny_healthcare_companies", ts, "json")
           csv_filename == FileName("ny_healthcare_companies", ts, "csv")
           csv == CsvOutput(all_results)
           skipped == IsRaise(csv) /\ csv.exc = "skipped"
           names == IF IsRaise(csv) THEN {json_filename}
                    ELSE {json_filename, csv_filename}
       IN /\ timestamp' = ts
          /\ written' = [written EXCEPT
                 !.json = <<[name |-> json_filename, content |-> all_results]>>,
                 !.csv = IF IsRaise(csv) THEN <<>>
                         ELSE <<[name |-> csv_filename, content |-> csv.dict]>>]
          /\ disk' = Stored(disk, names, run)
          /\ overwritten' = overwritten \cup (names \cap DOMAIN disk)
          /\ pc' = IF IsRaise(csv) /\ ~skipped THEN "raised" ELSE "companies"
    /\ idx' = 0
    /\ last' = "none"
    /\ UNCHANGED <<all_results, category_results, found_companies, requests,
                   budget, sawError, delivered, clock, run, clientVars,
                   entryVars>>

\* one turn of the for loop of search_specific_companies
CompanyQuery ==
    /\ pc = "companies"
    /\ \E oc \in RunOutcomes :
        /\ Handed(oc) # <<>> => budget > 0
        /\ LET call == search_providers(
                           [organization_name |-> major_companies[idx + 1],
                            enumeration_type |-> "NPI-2", limit |-> 10], oc)
               got == IF IsRaise(call.res) THEN call.res
                      ELSE company_query(call.res.dict, found_companies)
           IN /\ requests' = requests \o call.gets
              /\ budget' = IF Handed(oc) # <<>> THEN budget - 1 ELSE budget
              /\ sawError' = (sawError \/ ~IsSuccess(oc))
              /\ last' = IF IsSuccess(oc) THEN "answer" ELSE "error"
              /\ IF IsRaise(got)
                 THEN /\ pc' = "raised"
                      /\ UNCHANGED <<idx, found_companies>>
                 ELSE /\ found_companies' = got.list
                      /\ idx' = idx + 1
                      /\ pc' = IF idx + 1 = Len(major_companies)
                               THEN "visualize" ELSE "companies"
    /\ UNCHANGED <<all_results, category_results, delivered, timestamp, written,
                   clock, run, disk, overwritten, clientVars, entryVars>>

\* visualize_results inside the try of the main block: without matplotlib no
\* chart; a failure of the drawing or of savefig is caught and reported
Visualize ==
    /\ pc = "visualize"
    /\ \E plt \in BOOLEAN, saved \in BOOLEAN :
        LET out_filename == FileName("research_summary", Strftime(clock), "png")
            chart == [category_counts |-> CategoryCounts(all_results),
                      total_orgs |-> Len(all_results),
                      major_found |-> Len(found_companies)]
            names == IF plt /\ saved THEN {out_filename} ELSE {}
        IN /\ ~plt => saved
           /\ written' = [written EXCEPT
                  !.png = IF plt /\ saved
                          THEN <<[name |-> out_filename, content |-> chart]>>
                          ELSE <<>>]
           /\ disk' = Stored(disk, names, run)
           /\ overwritten' = overwritten \cup (names \cap DOMAIN disk)
    /\ pc' = "done"
    /\ last' = "none"
    /\ UNCHANGED <<idx, all_results, category_results, found_companies, requests,
                   budget, sawError, delivered, timestamp, clock, run,
                   clientVars, entryVars>>

\* time passes
Tick ==
    /\ clock < MaxClock
    /\ clock' = clock + 1
    /\ UNCHANGED <<pc, idx, all_results, category_results, found_companies,
                   requests, budget, sawError, last, delivered, timestamp,
                   written, run, disk, overwritten, clientVars, entryVars>>

\* the script is started again in the same working directory
StartRun ==
    /\ pc = "done"
    /\ run < MaxRuns
    /\ run' = run + 1
    /\ pc' = "research"
    /\ idx' = 0
    /\ all_results' = <<>>
    /\ category_results' = <<>>
    /\ found_companies' = <<>>
    /\ requests' = <<>>
    /\ budget' = MaxRunHits
    /\ sawError' = FALSE
    /\ last' = "none"
    /\ delivered' = <<>>
    /\ timestamp' = -1
    /\ written' = NoFiles
    /\ UNCHANGED <<clock, disk, overwritten, clientVars, entryVars>>

(***************************************************************************)
(* The specifications.                                                     *)
(***************************************************************************)
RunIdle ==
    FreshRun(0) /\ clock = 0 /\ run = 1 /\ disk = <<>> /\ overwritten = {}

\* calls of the client
InitClient == ClientIdle /\ entry = EmptyDict /\ EntryIdle /\ RunIdle
NextClient ==
    \/ CallSearchProviders
    \/ CallSearchNyHealthcareOrganizations
    \/ CallSearchBySpecialty
    \/ CallGetProviderDetails
SpecClient == InitClient /\ [][NextClient]_vars

\* one entry through the filter and the normalization
InitEntry == ClientIdle /\ entry \in Entries /\ EntryIdle /\ RunIdle
NextEntry ==
    \/ ResearchEntry
    \/ CompanyEntry
SpecEntry == InitEntry /\ [][NextEntry]_vars

\* one run of the script
Init ==
    /\ ClientIdle /\ entry = EmptyDict /\ EntryIdle
    /\ FreshRun(MaxHits) /\ clock = 0 /\ run = 1 /\ disk = <<>> /\ overwritten = {}
Next ==
    \/ ResearchQuery
    \/ SaveResults
    \/ CompanyQuery
    \/ Visualize
Spec == Init /\ [][Next]_vars

\* repeated runs in one working directory, under a moving clock
InitRuns ==
    /\ ClientIdle /\ entry = EmptyDict /\ EntryIdle
    /\ FreshRun(MaxRunHits) /\ clock = 0 /\ run = 1 /\ disk = <<>>
    /\ overwritten = {}
NextRuns ==
    \/ ResearchQuery
    \/ SaveResults
    \/ CompanyQuery
    \/ Visualize
    \/ Tick
    \/ StartRun
SpecRuns == InitRuns /\ [][NextRuns]_vars

\* one run of the script in which every query comes to an outcome, so the
\* script, single-threaded and blocking on each GET, keeps taking its steps
FairSpec == Spec /\ WF_vars(Next)

(***************************************************************************)
(* The claims about the client (SpecClient).                               *)
(***************************************************************************)
Body == outcome.body
ZeroCount ==
    IsSuccess(outcome) /\ "result_count" \in DOMAIN Body /\ Body["result_count"] = 0

\* C1: whatever the one GET of search_providers ends in (a parsed body, a
\* network failure, a non-success status), the call returns and does not
\* raise, having sent exactly one request: the parsed body on success, and
\* otherwise a dict whose 'error' key carries the description of the failure.
C1_SearchProvidersReturns ==
    op = "search_providers" =>
        /\ ~IsRaise(ret)
        /\ Len(sent) = 1
        /\ IsSuccess(outcome) => ret = ReturnDict(Body)
        /\ ~IsSuccess(outcome) =>
              /\ IsDict(ret)
              /\ "error" \in DOMAIN ret.dict
              /\ ret.dict["error"] = outcome.msg
              /\ outcome.msg # ""

C1_Witness ==
    /\ op = "search_providers"
    /\ outcome.kind = "response"
    /\ outcome.status = 500
    /\ ret = ReturnDict([error |-> "500 Server Error"])

\* C2: the parameters sent hold the version key, every key of the caller
\* with the caller's value, and nothing else; the version sent is the
\* caller's when the caller gives one and '2.1' otherwise.
C2_ParamsMerge ==
    op # "none" =>
        /\ Len(sent) >= 1
        /\ DOMAIN sent[1] = DOMAIN kwargs \cup {"version"}
        /\ \A k \in DOMAIN kwargs : sent[1][k] = kwargs[k]
        /\ "version" \notin DOMAIN kwargs => sent[1]["version"] = "2.1"

C2_Witness ==
    /\ op = "search_providers"
    /\ DOMAIN kwargs = {"version", "number"}
    /\ kwargs["version"] = "1.0"
    /\ sent[1]["version"] = "1.0"
    /\ sent[1]["number"] = "1234567893"

\* C3 as claimed: on a response whose result count is 0, each of the three
\* derived operations returns an empty sequence and not an error value.
C3_ZeroCountEmptySequence ==
    (/\ op \in {"search_ny_healthcare_organizations", "search_by_specialty",
                "get_provider_details"}
     /\ ZeroCount)
    => ret = ReturnList(<<>>)

\* C3 as amended: on a response whose result count is 0, the two
\* list-returning operations return an empty sequence, and
\* get_provider_details returns the 'Provider not found' error value.
C3_ZeroCountByOperation ==
    ZeroCount =>
        /\ op \in {"search_ny_healthcare_organizations", "search_by_specialty"}
              => ret = ReturnList(<<>>)
        /\ op = "get_provider_details" => ret = ReturnDict(NotFound)

C3_Witness ==
    /\ op = "search_by_specialty"
    /\ ZeroCount
    /\ "results" \in DOMAIN Body
    /\ Body["results"] # <<>>
    /\ ret = ReturnList(<<>>)

\* C7: get_provider_details sends one request holding the identifier only
\* and, whatever comes back, does not raise: it returns the first entry of
\* the results or the 'Provider not found' error value, the latter when the
\* count is zero.
C7_DetailsNeverRaises ==
    op = "get_provider_details" =>
        /\ sent = <<[number |-> kwargs["number"], version |-> "2.1"]>>
        /\ IsDict(ret)
        /\ \/ ret.dict = NotFound
           \/ /\ IsSuccess(outcome)
              /\ "results" \in DOMAIN Body
              /\ Body["results"] # <<>>
              /\ ret.dict = Body["results"][1]
        /\ ZeroCount => ret.dict = NotFound

(***************************************************************************)
(* The claims about one entry (SpecEntry).                                 *)
(***************************************************************************)
Addrs == IF "addresses" \in DOMAIN entry THEN entry["addresses"] ELSE <<>>
StateOf(a) == IF "state" \in DOMAIN a THEN a["state"] ELSE "absent"
SomeNY == \E i \in 1..Len(Addrs) : StateOf(Addrs[i]) = "NY"
Field(d, k) == IF k \in DOMAIN d THEN d[k] ELSE ""

\* C4: in either traversal an entry of a response yields a record exactly
\* when some address of it, at any position, has state 'NY'; without the
\* addresses key or with no address it is left out and nothing is raised,
\* and so is an entry whose only address is in 'CA'.
C4_JurisdictionFilter ==
    loop.name # "none" =>
        /\ IsList(out)
        /\ Len(out.list) = (IF SomeNY THEN 1 ELSE 0)
        /\ SomeNY => out.list[1].npi_number = Field(entry, "number")
        /\ Addrs = <<>> => out.list = <<>>
        /\ (Len(Addrs) = 1 /\ StateOf(Addrs[1]) = "CA") => out.list = <<>>

C4_Witness ==
    /\ loop.name = "company"
    /\ Len(Addrs) = 2
    /\ StateOf(Addrs[1]) = "CA"
    /\ StateOf(Addrs[2]) = "NY"
    /\ IsList(out)
    /\ Len(out.list) = 1

\* C5: an entry that reaches the normalization of the category traversal,
\* whichever of its nested keys are absent, gives without raising a record
\* of exactly the eleven keys, each holding its source's value, or the empty
\* string (never None) where the source is absent.
C5_NormalizationTotal ==
    (loop.name = "research" /\ SomeNY) =>
        /\ IsList(out)
        /\ Len(out.list) = 1
        /\ LET r == out.list[1]
               basic == IF "basic" \in DOMAIN entry THEN entry["basic"] ELSE EmptyDict
               first == Addrs[1]
               taxonomies == IF "taxonomies" \in DOMAIN entry
                             THEN entry["taxonomies"] ELSE <<>>
           IN /\ DOMAIN r = {"category", "search_term", "npi_number",
                             "organization_name", "city", "state", "zip_code",
                             "phone", "taxonomy", "enumeration_date", "status"}
              /\ \A k \in DOMAIN r : r[k] # None
              /\ r.category = loop.category
              /\ r.search_term = loop.term
              /\ r.npi_number = Field(entry, "number")
              /\ r.organization_name = Field(basic, "organization_name")
              /\ r.enumeration_date = Field(basic, "enumeration_date")
              /\ r.status = Field(basic, "status")
              /\ r.city = Field(first, "city")
              /\ r.state = Field(first, "state")
              /\ r.zip_code = Field(first, "postal_code")
              /\ r.phone = Field(first, "telephone_number")
              /\ r.taxonomy = (IF taxonomies = <<>> THEN ""
                               ELSE Field(taxonomies[1], "desc"))

C5_Witness ==
    /\ loop.name = "research"
    /\ DOMAIN entry = {"addresses"}
    /\ Len(Addrs) = 2
    /\ Addrs[1] = EmptyDict
    /\ IsList(out)
    /\ Len(out.list) = 1
    /\ out.list[1].state = ""
    /\ out.list[1].organization_name = ""

(***************************************************************************)
(* The claims about a run (Spec, FairSpec, SpecRuns).                      *)
(***************************************************************************)
\* the parameters of the query for an organization name
QueryFor(name, limit) ==
    [version |-> "2.1", organization_name |-> name,
     enumeration_type |-> "NPI-2", limit |-> limit]

\* the queries of a whole run, in order
AllQueries ==
    [i \in 1..(Len(Pairs) + Len(major_companies)) |->
        IF i <= Len(Pairs) THEN QueryFor(Pairs[i].term, 50)
        ELSE QueryFor(major_companies[i - Len(Pairs)], 10)]

\* how many queries the script has behind it
QueriesDone ==
    CASE pc = "research" -> idx
      [] pc = "save" -> Len(Pairs)
      [] pc = "companies" -> Len(Pairs) + idx
      [] pc \in {"visualize", "done"} -> Len(AllQueries)
      [] OTHER -> -1

\* C6: whatever the outcomes of the queries, the run never stops on an
\* exception and has issued exactly the queries of the taxonomy's pairs, then
\* of the names, one each and in order; a query that ends in a transport
\* error adds no record and moves on to the next pair or name; and the run
\* reaches the step that writes the output.
C6_EveryQueryIssued ==
    /\ [](/\ pc # "raised"
          /\ QueriesDone >= 0
          /\ requests = SubSeq(AllQueries, 1, QueriesDone))
    /\ [][last' = "error" =>
             /\ all_results' = all_results
             /\ found_companies' = found_companies
             /\ idx' = idx + 1
             /\ Len(requests') = Len(requests) + 1]_vars
    /\ <>(pc = "save")

C6_Witness ==
    /\ pc = "save"
    /\ sawError
    /\ last = "answer"
    /\ all_results # <<>>
    /\ Len(requests) = Len(Pairs)

\* no run has written to a file name that an earlier run wrote to
NoFileRewritten == overwritten = {}

\* the files a run has written all carry the timestamp of its line 71
OneTimestamp ==
    \A k \in {"json", "csv", "png"} :
        \A i \in 1..Len(written[k]) : written[k][i].name.ts = timestamp

\* C8: no run writes over a file of an earlier run, also when the two write
\* in the same clock second, and the files of one run carry one timestamp.
C8_NeverOverwritten == NoFileRewritten /\ OneTimestamp

Saved == pc \in {"companies", "visualize", "done"}
CsvName == FileName("ny_healthcare_companies", timestamp, "csv")

\* C9: once the outputs are written, the JSON file holds the aggregate; an
\* empty aggregate leaves no CSV file at all and an empty array in the JSON
\* file; otherwise the CSV file has the keys of the first record as its
\* header and one row per record, in order.
C9_CsvSkippedWhenEmpty ==
    Saved =>
        /\ Len(written.json) = 1
        /\ written.json[1].content = all_results
        /\ all_results = <<>> =>
              /\ written.csv = <<>>
              /\ CsvName \notin DOMAIN disk
              /\ written.json[1].content = <<>>
        /\ all_results # <<>> =>
              /\ Len(written.csv) = 1
              /\ written.csv[1].name = CsvName
              /\ CsvName \in DOMAIN disk
              /\ LET csv == written.csv[1].content
                 IN /\ csv.header = OrgDataKeys
                    /\ {csv.header[j] : j \in 1..Len(csv.header)}
                          = DOMAIN all_results[1]
                    /\ Len(csv.rows) = Len(all_results)
                    /\ \A i \in 1..Len(csv.rows) :
                          \A j \in 1..Len(csv.header) :
                              csv.rows[i][j] = all_results[i][csv.header[j]]

C9_Witness ==
    /\ Saved
    /\ all_results = <<>>
    /\ budget < MaxHits
    /\ written.csv = <<>>
    /\ Len(written.json) = 1
    /\ written.json[1].content = <<>>

IsPrefix(s, t) == Len(s) <= Len(t) /\ SubSeq(t, 1, Len(s)) = s

HasNYAddress(e) ==
    /\ "addresses" \in DOMAIN e
    /\ \E i \in 1..Len(e["addresses"]) :
          StateOf(e["addresses"][i]) = "NY"

\* the records of the entries handed over for the first n pairs that have
\* an address in NY, pair by pair and in the order of each response
RECURSIVE Aggregate(_)
Aggregate(n) ==
    IF n = 0 THEN <<>>
    ELSE LET kept == SelectSeq(delivered[n], HasNYAddress)
         IN Aggregate(n - 1) \o
            [j \in 1..Len(kept) |->
                org_data_fields(kept[j], kept[j]["addresses"],
                                Pairs[n].category, Pairs[n].term)]

\* C10: the aggregate is at every moment the concatenation, in the order of
\* the pairs and of each response, of the records of the entries handed over
\* that have an address in NY, repeats included; a step only ever extends
\* it, and the named-entity traversal leaves it as it is.
C10_AppendOnly ==
    /\ [](all_results = Aggregate(Len(delivered)))
    /\ [][/\ IsPrefix(all_results, all_results')
          /\ pc = "companies" => all_results' = all_results]_vars

C10_Witness ==
    /\ pc = "companies"
    /\ idx > 0
    /\ \E i, j \in 1..Len(all_results) :
          /\ i < j
          /\ all_results[i].npi_number = all_results[j].npi_number
          /\ all_results[i].search_term = "Psychiatric"
          /\ all_results[j].search_term = "Psychiatric"
          /\ all_results[i].category = "Specialized Care"
          /\ all_results[j].category = "Mental Health"
====
